---- MODULE Spec2Model ----
(***************************************************************************)
(* Model of the seller-apis batch jobs: seller.py (Ozon) and market.py     *)
(* (Yandex Market).  Each job fetches the channel's catalog page by page,  *)
(* downloads the inventory snapshot, derives stock and price updates and   *)
(* submits them in chunks.                                                 *)
(*                                                                         *)
(* Texts that the code inspects character by character (quantity           *)
(* descriptors, price texts) are sequences of one-character strings;       *)
(* identifiers, which the code only compares, are strings.  The Cyrillic   *)
(* currency letters of the price examples are written "r","u","b": the     *)
(* code only asks of them whether they are digits.                         *)
(* A quantity cell is the value the sheet holds (a text, an integer, a     *)
(* float, a boolean, or None), since the code applies both str() and int() *)
(* to it.                                                                  *)
(***************************************************************************)
EXTENDS Integers, Sequences, FiniteSets, TLC

VARIABLES
    job,            \* "seller" or "market": which main() runs, or the upload_* coroutine function that runs; "none" in the function specifications
    pc,             \* position in main(), or "call"/"returned" in the function specifications
    chan,           \* market.main: 1 while FBS is processed, 2 while DBS is; seller.main: 1
    responses,      \* page responses received by the running get_offer_ids call
    product_list,   \* get_offer_ids: product_list
    offer_ids,      \* main: offer_ids
    catalog,        \* catalog[c]: the list get_offer_ids returned for channel c, kept as returned
    watch_remnants, \* main: watch_remnants
    stocks,         \* main: stocks
    prices,         \* seller.main: prices
    todo,           \* chunks of list(divide(...)) the running for loop still has to submit
    log,            \* every HTTP request issued so far, in order
    raised,         \* the exception that ended the run, or "none"
    out,            \* what main printed
    call,           \* function specifications: the call under study
    ret             \* what the call under study, or the upload_* coroutine, returned

vars == <<job, pc, chan, responses, product_list, offer_ids, catalog,
          watch_remnants, stocks, prices, todo, log, raised, out, call, ret>>

mainvars == <<job, chan, responses, product_list, offer_ids, catalog,
              watch_remnants, stocks, prices, todo, log, raised, out>>

-----------------------------------------------------------------------------
(* Bounds of the model.                                                    *)

MaxLen == 4        \* divide: longest list
MaxN == 3          \* divide: largest chunk size
MaxK == 3          \* create_stocks: longest identifier list
MaxInv == 2        \* create_stocks: longest inventory
MaxDescr == 3      \* longest quantity descriptor
MaxPages == 2      \* page requests of one get_offer_ids call
MaxTotal == 4      \* largest "total" a seller page reports
MaxPrice == 4      \* longest price text

\* Chunk sizes of the submission loops, as the source has them.
SellerStocksChunk == 100     \* seller.main, seller.upload_stocks
SellerPricesChunk == 900     \* seller.main
SellerUploadPricesChunk == 1000     \* seller.upload_prices
MarketStocksChunk == 2000    \* market.main, market.upload_stocks
MarketPricesChunk == 500     \* market.upload_prices

-----------------------------------------------------------------------------
(* Sequence helpers.                                                       *)

\* All sequences over S of length at most n.
SeqsUpTo(S, n) == UNION {[1..k -> S] : k \in 0..n}

\* Python: x in lst
In(x, lst) == \E i \in 1..Len(lst) : lst[i] = x

\* Python: lst.remove(x) when x is in lst: the first occurrence goes.
Remove(lst, x) ==
    LET i == CHOOSE j \in 1..Len(lst) :
                 lst[j] = x /\ \A k \in 1..(j - 1) : lst[k] # x
    IN  SubSeq(lst, 1, i - 1) \o SubSeq(lst, i + 1, Len(lst))

RECURSIVE Flatten(_)
Flatten(ss) == IF ss = <<>> THEN <<>> ELSE Head(ss) \o Flatten(Tail(ss))

\* No entry of lst occurs twice.
Distinct(lst) == Cardinality({lst[i] : i \in 1..Len(lst)}) = Len(lst)

-----------------------------------------------------------------------------
(* seller.divide                                                           *)

\* divide with range(0, len(lst) - n + 1, n): a short last slice is lost.
RECURSIVE divide_from_full_only(_, _, _)
divide_from_full_only(lst, n, i) ==
    IF i + n > Len(lst) THEN <<>>
    ELSE <<SubSeq(lst, i + 1, i + n)>> \o divide_from_full_only(lst, n, i + n)

RECURSIVE divide_from(_, _, _)
divide_from(lst, n, i) ==
    IF i >= Len(lst) THEN <<>>
    ELSE <<SubSeq(lst, i + 1, IF i + n < Len(lst) THEN i + n ELSE Len(lst))>>
             \o divide_from(lst, n, i + n)

\* list(divide(lst, n)): the slices lst[i : i + n] for i in range(0, len(lst), n)
divide(lst, n) == divide_from(lst, n, 0)

-----------------------------------------------------------------------------
(* Texts and Python's int().                                               *)

\* A character is a one-character string; a character outside printable
\* ASCII is written by its code point, "U+00A0", and tab, line feed, carriage
\* return and form feed also as "\t", "\n", "\r", "\f".

\* [0-9] of price_conversion's regular expression.
DigitChars == {"0", "1", "2", "3", "4", "5", "6", "7", "8", "9"}

\* The characters int() strips from both ends of a text.
WhitespaceChars ==
    { "\t", "U+0009", "\n", "U+000A", "U+000B", "\f", "U+000C", "\r",
      "U+000D", " ", "U+0085", "U+00A0", "U+1680", "U+2000", "U+2001",
      "U+2002", "U+2003", "U+2004", "U+2005", "U+2006", "U+2007", "U+2008",
      "U+2009", "U+200A", "U+2028", "U+2029", "U+202F", "U+205F", "U+3000" }

\* The characters int() reads as the decimal digit v: the Unicode decimal
\* digits (category Nd) of value v.
DecimalDigitsOf(v) ==
    CASE v = 0 ->
          { "0", "U+0660", "U+06F0", "U+07C0", "U+0966", "U+09E6", "U+0A66",
            "U+0AE6", "U+0B66", "U+0BE6", "U+0C66", "U+0CE6", "U+0D66",
            "U+0DE6", "U+0E50", "U+0ED0", "U+0F20", "U+1040", "U+1090",
            "U+17E0", "U+1810", "U+1946", "U+19D0", "U+1A80", "U+1A90",
            "U+1B50", "U+1BB0", "U+1C40", "U+1C50", "U+A620", "U+A8D0",
            "U+A900", "U+A9D0", "U+A9F0", "U+AA50", "U+ABF0", "U+FF10",
            "U+104A0", "U+10D30", "U+11066", "U+110F0", "U+11136", "U+111D0",
            "U+112F0", "U+11450", "U+114D0", "U+11650", "U+116C0", "U+11730",
            "U+118E0", "U+11950", "U+11C50", "U+11D50", "U+11DA0", "U+16A60",
            "U+16AC0", "U+16B50", "U+1D7CE", "U+1D7D8", "U+1D7E2", "U+1D7EC",
            "U+1D7F6", "U+1E140", "U+1E2F0", "U+1E950", "U+1FBF0" }
      [] v = 1 ->
          { "1", "U+0661", "U+06F1", "U+07C1", "U+0967", "U+09E7", "U+0A67",
            "U+0AE7", "U+0B67", "U+0BE7", "U+0C67", "U+0CE7", "U+0D67",
            "U+0DE7", "U+0E51", "U+0ED1", "U+0F21", "U+1041", "U+1091",
            "U+17E1", "U+1811", "U+1947", "U+19D1", "U+1A81", "U+1A91",
            "U+1B51", "U+1BB1", "U+1C41", "U+1C51", "U+A621", "U+A8D1",
            "U+A901", "U+A9D1", "U+A9F1", "U+AA51", "U+ABF1", "U+FF11",
            "U+104A1", "U+10D31", "U+11067", "U+110F1", "U+11137", "U+111D1",
            "U+112F1", "U+11451", "U+114D1", "U+11651", "U+116C1", "U+11731",
            "U+118E1", "U+11951", "U+11C51", "U+11D51", "U+11DA1", "U+16A61",
            "U+16AC1", "U+16B51", "U+1D7CF", "U+1D7D9", "U+1D7E3", "U+1D7ED",
            "U+1D7F7", "U+1E141", "U+1E2F1", "U+1E951", "U+1FBF1" }
      [] v = 2 ->
          { "2", "U+0662", "U+06F2", "U+07C2", "U+0968", "U+09E8", "U+0A68",
            "U+0AE8", "U+0B68", "U+0BE8", "U+0C68", "U+0CE8", "U+0D68",
            "U+0DE8", "U+0E52", "U+0ED2", "U+0F22", "U+1042", "U+1092",
            "U+17E2", "U+1812", "U+1948", "U+19D2", "U+1A82", "U+1A92",
            "U+1B52", "U+1BB2", "U+1C42", "U+1C52", "U+A622", "U+A8D2",
            "U+A902", "U+A9D2", "U+A9F2", "U+AA52", "U+ABF2", "U+FF12",
            "U+104A2", "U+10D32", "U+11068", "U+110F2", "U+11138", "U+111D2",
            "U+112F2", "U+11452", "U+114D2", "U+11652", "U+116C2", "U+11732",
            "U+118E2", "U+11952", "U+11C52", "U+11D52", "U+11DA2", "U+16A62",
            "U+16AC2", "U+16B52", "U+1D7D0", "U+1D7DA", "U+1D7E4", "U+1D7EE",
            "U+1D7F8", "U+1E142", "U+1E2F2", "U+1E952", "U+1FBF2" }
      [] v = 3 ->
          { "3", "U+0663", "U+06F3", "U+07C3", "U+0969", "U+09E9", "U+0A69",
            "U+0AE9", "U+0B69", "U+0BE9", "U+0C69", "U+0CE9", "U+0D69",
            "U+0DE9", "U+0E53", "U+0ED3", "U+0F23", "U+1043", "U+1093",
            "U+17E3", "U+1813", "U+1949", "U+19D3", "U+1A83", "U+1A93",
            "U+1B53", "U+1BB3", "U+1C43", "U+1C53", "U+A623", "U+A8D3",
            "U+A903", "U+A9D3", "U+A9F3", "U+AA53", "U+ABF3", "U+FF13",
            "U+104A3", "U+10D33", "U+11069", "U+110F3", "U+11139", "U+111D3",
            "U+112F3", "U+11453", "U+114D3", "U+11653", "U+116C3", "U+11733",
            "U+118E3", "U+11953", "U+11C53", "U+11D53", "U+11DA3", "U+16A63",
            "U+16AC3", "U+16B53", "U+1D7D1", "U+1D7DB", "U+1D7E5", "U+1D7EF",
            "U+1D7F9", "U+1E143", "U+1E2F3", "U+1E953", "U+1FBF3" }
      [] v = 4 ->
          { "4", "U+0664", "U+06F4", "U+07C4", "U+096A", "U+09EA", "U+0A6A",
            "U+0AEA", "U+0B6A", "U+0BEA", "U+0C6A", "U+0CEA", "U+0D6A",
            "U+0DEA", "U+0E54", "U+0ED4", "U+0F24", "U+1044", "U+1094",
            "U+17E4", "U+1814", "U+194A", "U+19D4", "U+1A84", "U+1A94",
            "U+1B54", "U+1BB4", "U+1C44", "U+1C54", "U+A624", "U+A8D4",
            "U+A904", "U+A9D4", "U+A9F4", "U+AA54", "U+ABF4", "U+FF14",
            "U+104A4", "U+10D34", "U+1106A", "U+110F4", "U+1113A", "U+111D4",
            "U+112F4", "U+11454", "U+114D4", "U+11654", "U+116C4", "U+11734",
            "U+118E4", "U+11954", "U+11C54", "U+11D54", "U+11DA4", "U+16A64",
            "U+16AC4", "U+16B54", "U+1D7D2", "U+1D7DC", "U+1D7E6", "U+1D7F0",
            "U+1D7FA", "U+1E144", "U+1E2F4", "U+1E954", "U+1FBF4" }
      [] v = 5 ->
          { "5", "U+0665", "U+06F5", "U+07C5", "U+096B", "U+09EB", "U+0A6B",
            "U+0AEB", "U+0B6B", "U+0BEB", "U+0C6B", "U+0CEB", "U+0D6B",
            "U+0DEB", "U+0E55", "U+0ED5", "U+0F25", "U+1045", "U+1095",
            "U+17E5", "U+1815", "U+194B", "U+19D5", "U+1A85", "U+1A95",
            "U+1B55", "U+1BB5", "U+1C45", "U+1C55", "U+A625", "U+A8D5",
            "U+A905", "U+A9D5", "U+A9F5", "U+AA55", "U+ABF5", "U+FF15",
            "U+104A5", "U+10D35", "U+1106B", "U+110F5", "U+1113B", "U+111D5",
            "U+112F5", "U+11455", "U+114D5", "U+11655", "U+116C5", "U+11735",
            "U+118E5", "U+11955", "U+11C55", "U+11D55", "U+11DA5", "U+16A65",
            "U+16AC5", "U+16B55", "U+1D7D3", "U+1D7DD", "U+1D7E7", "U+1D7F1",
            "U+1D7FB", "U+1E145", "U+1E2F5", "U+1E955", "U+1FBF5" }
      [] v = 6 ->
          { "6", "U+0666", "U+06F6", "U+07C6", "U+096C", "U+09EC", "U+0A6C",
            "U+0AEC", "U+0B6C", "U+0BEC", "U+0C6C", "U+0CEC", "U+0D6C",
            "U+0DEC", "U+0E56", "U+0ED6", "U+0F26", "U+1046", "U+1096",
            "U+17E6", "U+1816", "U+194C", "U+19D6", "U+1A86", "U+1A96",
            "U+1B56", "U+1BB6", "U+1C46", "U+1C56", "U+A626", "U+A8D6",
            "U+A906", "U+A9D6", "U+A9F6", "U+AA56", "U+ABF6", "U+FF16",
            "U+104A6", "U+10D36", "U+1106C", "U+110F6", "U+1113C", "U+111D6",
            "U+112F6", "U+11456", "U+114D6", "U+11656", "U+116C6", "U+11736",
            "U+118E6", "U+11956", "U+11C56", "U+11D56", "U+11DA6", "U+16A66",
            "U+16AC6", "U+16B56", "U+1D7D4", "U+1D7DE", "U+1D7E8", "U+1D7F2",
            "U+1D7FC", "U+1E146", "U+1E2F6", "U+1E956", "U+1FBF6" }
      [] v = 7 ->
          { "7", "U+0667", "U+06F7", "U+07C7", "U+096D", "U+09ED", "U+0A6D",
            "U+0AED", "U+0B6D", "U+0BED", "U+0C6D", "U+0CED", "U+0D6D",
            "U+0DED", "U+0E57", "U+0ED7", "U+0F27", "U+1047", "U+1097",
            "U+17E7", "U+1817", "U+194D", "U+19D7", "U+1A87", "U+1A97",
            "U+1B57", "U+1BB7", "U+1C47", "U+1C57", "U+A627", "U+A8D7",
            "U+A907", "U+A9D7", "U+A9F7", "U+AA57", "U+ABF7", "U+FF17",
            "U+104A7", "U+10D37", "U+1106D", "U+110F7", "U+1113D", "U+111D7",
            "U+112F7", "U+11457", "U+114D7", "U+11657", "U+116C7", "U+11737",
            "U+118E7", "U+11957", "U+11C57", "U+11D57", "U+11DA7", "U+16A67",
            "U+16AC7", "U+16B57", "U+1D7D5", "U+1D7DF", "U+1D7E9", "U+1D7F3",
            "U+1D7FD", "U+1E147", "U+1E2F7", "U+1E957", "U+1FBF7" }
      [] v = 8 ->
          { "8", "U+0668", "U+06F8", "U+07C8", "U+096E", "U+09EE", "U+0A6E",
            "U+0AEE", "U+0B6E", "U+0BEE", "U+0C6E", "U+0CEE", "U+0D6E",
            "U+0DEE", "U+0E58", "U+0ED8", "U+0F28", "U+1048", "U+1098",
            "U+17E8", "U+1818", "U+194E", "U+19D8", "U+1A88", "U+1A98",
            "U+1B58", "U+1BB8", "U+1C48", "U+1C58", "U+A628", "U+A8D8",
            "U+A908", "U+A9D8", "U+A9F8", "U+AA58", "U+ABF8", "U+FF18",
            "U+104A8", "U+10D38", "U+1106E", "U+110F8", "U+1113E", "U+111D8",
            "U+112F8", "U+11458", "U+114D8", "U+11658", "U+116C8", "U+11738",
            "U+118E8", "U+11958", "U+11C58", "U+11D58", "U+11DA8", "U+16A68",
            "U+16AC8", "U+16B58", "U+1D7D6", "U+1D7E0", "U+1D7EA", "U+1D7F4",
            "U+1D7FE", "U+1E148", "U+1E2F8", "U+1E958", "U+1FBF8" }
      [] v = 9 ->
          { "9", "U+0669", "U+06F9", "U+07C9", "U+096F", "U+09EF", "U+0A6F",
            "U+0AEF", "U+0B6F", "U+0BEF", "U+0C6F", "U+0CEF", "U+0D6F",
            "U+0DEF", "U+0E59", "U+0ED9", "U+0F29", "U+1049", "U+1099",
            "U+17E9", "U+1819", "U+194F", "U+19D9", "U+1A89", "U+1A99",
            "U+1B59", "U+1BB9", "U+1C49", "U+1C59", "U+A629", "U+A8D9",
            "U+A909", "U+A9D9", "U+A9F9", "U+AA59", "U+ABF9", "U+FF19",
            "U+104A9", "U+10D39", "U+1106F", "U+110F9", "U+1113F", "U+111D9",
            "U+112F9", "U+11459", "U+114D9", "U+11659", "U+116C9", "U+11739",
            "U+118E9", "U+11959", "U+11C59", "U+11D59", "U+11DA9", "U+16A69",
            "U+16AC9", "U+16B59", "U+1D7D7", "U+1D7E1", "U+1D7EB", "U+1D7F5",
            "U+1D7FF", "U+1E149", "U+1E2F9", "U+1E959", "U+1FBF9" }

IntDigitChars == UNION {DecimalDigitsOf(v) : v \in 0..9}

DigitVal(c) == CHOOSE v \in 0..9 : c \in DecimalDigitsOf(v)

RECURSIVE LStrip(_)
LStrip(s) ==
    IF s # <<>> /\ Head(s) \in WhitespaceChars THEN LStrip(Tail(s)) ELSE s

RECURSIVE RStrip(_)
RStrip(s) ==
    IF s # <<>> /\ s[Len(s)] \in WhitespaceChars
    THEN RStrip(SubSeq(s, 1, Len(s) - 1)) ELSE s

RECURSIVE DecimalValue(_, _)
DecimalValue(d, acc) ==
    IF d = <<>> THEN acc
    ELSE IF Head(d) = "_" THEN DecimalValue(Tail(d), acc)
    ELSE DecimalValue(Tail(d), 10 * acc + DigitVal(Head(d)))

\* The digit part int() accepts: digits, single underscores only between digits.
DigitsWellFormed(d) ==
    /\ d # <<>>
    /\ d[1] \in IntDigitChars
    /\ d[Len(d)] \in IntDigitChars
    /\ \A i \in 1..Len(d) : d[i] \in IntDigitChars \cup {"_"}
    /\ \A i \in 1..(Len(d) - 1) : ~(d[i] = "_" /\ d[i + 1] = "_")

\* Python: int(s) for a str s.  Surrounding whitespace is stripped, one sign
\* is allowed; anything else raises ValueError.
PyInt(s) ==
    LET t == RStrip(LStrip(s))
        signed == t # <<>> /\ Head(t) \in {"+", "-"}
        d == IF signed THEN Tail(t) ELSE t
    IN  IF DigitsWellFormed(d)
        THEN [ok |-> TRUE,
              val |-> IF signed /\ Head(t) = "-"
                      THEN 0 - DecimalValue(d, 0) ELSE DecimalValue(d, 0),
              exc |-> "none"]
        ELSE [ok |-> FALSE, val |-> 0, exc |-> "ValueError"]

-----------------------------------------------------------------------------
(* Cells of the inventory table.                                           *)

\* read_excel gives a cell as the value the sheet holds: a text, an integer,
\* a float, a boolean; watch.get(...) gives None for a column the sheet does
\* not have.  A float is written by its tenths: FloatCell(75) is 7.5.
StrCell(s) == [type |-> "str", text |-> s]
IntCell(n) == [type |-> "int", n |-> n]
FloatCell(t) == [type |-> "float", tenths |-> t]
BoolCell(b) == [type |-> "bool", b |-> b]
NoneCell == [type |-> "NoneType"]

Abs(n) == IF n < 0 THEN 0 - n ELSE n

AsciiDigits == <<"0", "1", "2", "3", "4", "5", "6", "7", "8", "9">>

RECURSIVE NatText(_)
NatText(n) ==
    IF n < 10 THEN <<AsciiDigits[n + 1]>>
    ELSE NatText(n \div 10) \o <<AsciiDigits[(n % 10) + 1]>>

\* Python: str(raw)
PyStr(raw) ==
    CASE raw.type = "str" -> raw.text
      [] raw.type = "int" ->
             (IF raw.n < 0 THEN <<"-">> ELSE <<>>) \o NatText(Abs(raw.n))
      [] raw.type = "float" ->
             (IF raw.tenths < 0 THEN <<"-">> ELSE <<>>)
                 \o NatText(Abs(raw.tenths) \div 10) \o <<".">>
                 \o NatText(Abs(raw.tenths) % 10)
      [] raw.type = "bool" ->
             IF raw.b THEN <<"T", "r", "u", "e">> ELSE <<"F", "a", "l", "s", "e">>
      [] raw.type = "NoneType" -> <<"N", "o", "n", "e">>

\* Python: int(raw).  A text is parsed, a float is truncated towards zero, a
\* boolean is 0 or 1, None raises TypeError.
PyIntRaw(raw) ==
    CASE raw.type = "str" -> PyInt(raw.text)
      [] raw.type = "int" -> [ok |-> TRUE, val |-> raw.n, exc |-> "none"]
      [] raw.type = "float" ->
             [ok |-> TRUE,
              val |-> IF raw.tenths < 0 THEN 0 - (Abs(raw.tenths) \div 10)
                      ELSE raw.tenths \div 10,
              exc |-> "none"]
      [] raw.type = "bool" ->
             [ok |-> TRUE, val |-> IF raw.b THEN 1 ELSE 0, exc |-> "none"]
      [] raw.type = "NoneType" -> [ok |-> FALSE, val |-> 0, exc |-> "TypeError"]

-----------------------------------------------------------------------------
(* seller.price_conversion                                                 *)

\* price.split(".")[0]
RECURSIVE BeforeFirstDot(_)
BeforeFirstDot(s) ==
    IF s = <<>> \/ Head(s) = "." THEN <<>>
    ELSE <<Head(s)>> \o BeforeFirstDot(Tail(s))

\* re.sub("[^0-9]", "", s)
OnlyDigits(s) == SelectSeq(s, LAMBDA c : c \in DigitChars)

\* price_conversion without the split: the digits of the whole text.
price_conversion_no_split(price) == OnlyDigits(price)

price_conversion(price) == OnlyDigits(BeforeFirstDot(price))

-----------------------------------------------------------------------------
(* create_stocks: the quantity policy and the two passes.                  *)

Gt10 == <<">", "1", "0">>
One == <<"1">>

\* The quantity policy with the conversion failure swallowed: a cell int()
\* rejects counts as 0.
Bucket_unparsed_is_zero(raw) ==
    LET count == PyStr(raw)
    IN  IF count = Gt10 THEN [ok |-> TRUE, val |-> 100, exc |-> "none"]
        ELSE IF count = One THEN [ok |-> TRUE, val |-> 0, exc |-> "none"]
        ELSE [ok |-> TRUE, val |-> PyIntRaw(raw).val, exc |-> "none"]

\* The if / elif / else of create_stocks (the same in both files): the
\* comparisons look at count = str(raw), the else branch converts the cell
\* itself, int(raw).
Bucket(raw) ==
    LET count == PyStr(raw)
    IN  IF count = Gt10 THEN [ok |-> TRUE, val |-> 100, exc |-> "none"]
        ELSE IF count = One THEN [ok |-> TRUE, val |-> 0, exc |-> "none"]
        ELSE PyIntRaw(raw)

\* seller.create_stocks without offer_ids.remove(...): nothing is consumed.
RECURSIVE seller_match_no_remove(_, _, _, _)
seller_match_no_remove(watch, i, ids, acc) ==
    IF i > Len(watch) THEN [raised |-> "none", stocks |-> acc, offer_ids |-> ids]
    ELSE IF In(watch[i].id, ids)
    THEN LET b == Bucket(watch[i].qty)
         IN  IF b.ok
             THEN seller_match_no_remove(watch, i + 1, ids,
                      Append(acc, [offer_id |-> watch[i].id, stock |-> b.val]))
             ELSE [raised |-> b.exc, stocks |-> <<>>, offer_ids |-> ids]
    ELSE seller_match_no_remove(watch, i + 1, ids, acc)

\* seller.create_stocks, first loop, from record i on.
RECURSIVE seller_match(_, _, _, _)
seller_match(watch, i, ids, acc) ==
    IF i > Len(watch) THEN [raised |-> "none", stocks |-> acc, offer_ids |-> ids]
    ELSE IF In(watch[i].id, ids)
    THEN LET b == Bucket(watch[i].qty)
         IN  IF b.ok
             THEN seller_match(watch, i + 1, Remove(ids, watch[i].id),
                      Append(acc, [offer_id |-> watch[i].id, stock |-> b.val]))
             ELSE [raised |-> b.exc, stocks |-> <<>>, offer_ids |-> ids]
    ELSE seller_match(watch, i + 1, ids, acc)

\* seller.create_stocks: [raised, stocks, offer_ids]; offer_ids is the caller's
\* list as the call leaves it.
create_stocks(watch, ids) ==
    LET m == seller_match(watch, 1, ids, <<>>)
    IN  IF m.raised # "none" THEN m
        ELSE [raised |-> "none",
              stocks |-> m.stocks \o
                  [k \in 1..Len(m.offer_ids) |->
                      [offer_id |-> m.offer_ids[k], stock |-> 0]],
              offer_ids |-> m.offer_ids]

\* market.create_stocks, first loop, from record i on.  updatedAt, one
\* timestamp per call, is left out.
RECURSIVE market_match(_, _, _, _, _)
market_match(watch, i, ids, warehouse_id, acc) ==
    IF i > Len(watch) THEN [raised |-> "none", stocks |-> acc, offer_ids |-> ids]
    ELSE IF In(watch[i].id, ids)
    THEN LET b == Bucket(watch[i].qty)
         IN  IF b.ok
             THEN market_match(watch, i + 1, Remove(ids, watch[i].id), warehouse_id,
                      Append(acc, [sku |-> watch[i].id, warehouseId |-> warehouse_id,
                                   count |-> b.val, type |-> "FIT"]))
             ELSE [raised |-> b.exc, stocks |-> <<>>, offer_ids |-> ids]
    ELSE market_match(watch, i + 1, ids, warehouse_id, acc)

\* market.create_stocks with the two loops in the other order.
market_create_stocks_defaults_first(watch, ids, warehouse_id) ==
    LET m == market_match(watch, 1, ids, warehouse_id, <<>>)
    IN  IF m.raised # "none" THEN m
        ELSE [raised |-> "none",
              stocks |-> [k \in 1..Len(m.offer_ids) |->
                             [sku |-> m.offer_ids[k], warehouseId |-> warehouse_id,
                              count |-> 0, type |-> "FIT"]] \o m.stocks,
              offer_ids |-> m.offer_ids]

market_create_stocks(watch, ids, warehouse_id) ==
    LET m == market_match(watch, 1, ids, warehouse_id, <<>>)
    IN  IF m.raised # "none" THEN m
        ELSE [raised |-> "none",
              stocks |-> m.stocks \o
                  [k \in 1..Len(m.offer_ids) |->
                      [sku |-> m.offer_ids[k], warehouseId |-> warehouse_id,
                       count |-> 0, type |-> "FIT"]],
              offer_ids |-> m.offer_ids]

\* Identifier and quantity of a stock update of either channel.
StockId(u) == IF "sku" \in DOMAIN u THEN u.sku ELSE u.offer_id
StockQty(u) == IF "sku" \in DOMAIN u THEN u.count ELSE u.stock

-----------------------------------------------------------------------------
(* create_prices                                                           *)

\* seller.create_prices
RECURSIVE create_prices_from(_, _, _)
create_prices_from(watch, i, ids) ==
    IF i > Len(watch) THEN <<>>
    ELSE (IF In(watch[i].id, ids)
          THEN <<[auto_action_enabled |-> "UNKNOWN", currency_code |-> "RUB",
                  offer_id |-> watch[i].id, old_price |-> "0",
                  price |-> price_conversion(watch[i].price)]>>
          ELSE <<>>) \o create_prices_from(watch, i + 1, ids)

create_prices(watch, ids) == create_prices_from(watch, 1, ids)

\* market.create_prices: int(price_conversion(...)) raises ValueError when
\* no digit precedes the first "."
RECURSIVE market_prices_from(_, _, _, _)
market_prices_from(watch, i, ids, acc) ==
    IF i > Len(watch) THEN [raised |-> "none", prices |-> acc]
    ELSE IF In(watch[i].id, ids)
    THEN LET v == PyInt(price_conversion(watch[i].price))
         IN  IF v.ok
             THEN market_prices_from(watch, i + 1, ids,
                      Append(acc, [id |-> watch[i].id, value |-> v.val,
                                   currencyId |-> "RUR"]))
             ELSE [raised |-> "ValueError", prices |-> <<>>]
    ELSE market_prices_from(watch, i + 1, ids, acc)

market_create_prices(watch, ids) == market_prices_from(watch, 1, ids, <<>>)

-----------------------------------------------------------------------------
(* The function specifications apply one function to bounded inputs.       *)

MainIdle ==
    /\ job = "none" /\ chan = 0 /\ responses = <<>> /\ product_list = <<>>
    /\ offer_ids = <<>> /\ catalog = <<>> /\ watch_remnants = <<>>
    /\ stocks = <<>> /\ prices = <<>> /\ todo = <<>> /\ log = <<>>
    /\ raised = "none" /\ out = "none"

Items == {"x", "y"}

InitDivide ==
    /\ MainIdle
    /\ pc = "call"
    /\ call \in [fn : {"divide"}, lst : SeqsUpTo(Items, MaxLen), n : 1..MaxN]
    /\ ret = <<>>

ApplyDivide ==
    /\ pc = "call" /\ call.fn = "divide"
    /\ ret' = divide(call.lst, call.n)
    /\ pc' = "returned"
    /\ UNCHANGED <<call, mainvars>>

NextDivide == ApplyDivide

SpecDivide == InitDivide /\ [][NextDivide]_vars

\* C8: divide(S, n) cuts S into contiguous chunks that concatenate back to S,
\* each of 1..n elements, only the last one possibly shorter than n, and
\* ceil(|S| / n) of them; the empty list gives no chunk.
C8_DividePartitions ==
    (pc = "returned" /\ call.fn = "divide") =>
        /\ Flatten(ret) = call.lst
        /\ \A i \in 1..Len(ret) : Len(ret[i]) >= 1 /\ Len(ret[i]) <= call.n
        /\ \A i \in 1..(Len(ret) - 1) : Len(ret[i]) = call.n
        /\ Len(ret) = (Len(call.lst) + call.n - 1) \div call.n
        /\ (call.lst = <<>> => ret = <<>>)

C8_Witness ==
    /\ pc = "returned" /\ call.fn = "divide"
    /\ Len(ret) >= 2
    /\ Len(ret[Len(ret)]) < call.n

-----------------------------------------------------------------------------
(* create_stocks applied to bounded identifier lists and inventories.      *)

Ids == {"A", "B", "C"}

P5990 == <<"5", "'", "9", "9", "0", ".", "0", "0", " ", "r", "u", "b", ".">>
P12 == <<"1", "2", ".", "5", "0">>
P999 == <<"9", "9", "9", " ", "r", "u", "b", ".">>

Rec(i, q, p) == [id |-> i, qty |-> q, price |-> p]

RecA == Rec("A", StrCell(Gt10), P5990)

\* Inventory records: in and out of the catalog, every branch of the policy,
\* one descriptor int() rejects; the sheet holds the quantities as texts or
\* as numbers.
RecPool ==
    { RecA,
      Rec("A", StrCell(<<"7">>), P12),
      Rec("B", StrCell(One), P999),
      Rec("B", IntCell(0), P5990),
      Rec("C", StrCell(<<"x">>), P12),
      Rec("D", StrCell(<<"7">>), P12) }

\* Characters of the quantity texts: the sentinels' characters, signs, an
\* ASCII and a fullwidth digit, a space and a tab, a letter.
QtyAlphabet == {">", "0", "1", "7", "U+FF17", "-", "+", " ", "\t", "x"}

\* Quantity cells that are not texts.
NumberCells ==
    {IntCell(n) : n \in {0 - 1, 0, 1, 7, 10, 11}}
        \cup {FloatCell(t) : t \in {0 - 15, 0 - 5, 0, 5, 10, 15, 70, 75}}
        \cup {BoolCell(TRUE), BoolCell(FALSE), NoneCell}

WarehouseIds == <<"W_FBS", "W_DBS">>

InitRecon ==
    /\ MainIdle
    /\ pc = "call"
    /\ ret = <<>>
    /\ \/ call \in [fn : {"create_stocks"}, job : {"seller", "market"},
                    watch_remnants : SeqsUpTo(RecPool, MaxInv),
                    offer_ids : SeqsUpTo(Ids, MaxK)]
       \/ \E d \in {StrCell(s) : s \in SeqsUpTo(QtyAlphabet, MaxDescr)}
                          \cup NumberCells,
             j \in {"seller", "market"} :
              call = [fn |-> "create_stocks", job |-> j,
                      watch_remnants |-> <<Rec("A", d, P5990)>>,
                      offer_ids |-> <<"A">>]

ApplySellerCreateStocks ==
    /\ pc = "call" /\ call.fn = "create_stocks" /\ call.job = "seller"
    /\ ret' = create_stocks(call.watch_remnants, call.offer_ids)
    /\ pc' = "returned"
    /\ UNCHANGED <<call, mainvars>>

ApplyMarketCreateStocks ==
    /\ pc = "call" /\ call.fn = "create_stocks" /\ call.job = "market"
    /\ ret' = market_create_stocks(call.watch_remnants, call.offer_ids,
                                   WarehouseIds[1])
    /\ pc' = "returned"
    /\ UNCHANGED <<call, mainvars>>

NextRecon == ApplySellerCreateStocks \/ ApplyMarketCreateStocks

SpecRecon == InitRecon /\ [][NextRecon]_vars

Returned == pc = "returned" /\ call.fn = "create_stocks"

Count(lst, x) == Cardinality({i \in 1..Len(lst) : lst[i] = x})

\* Record i of R is the one that consumes an entry of K: its identifier has
\* more entries in K than records before i carry it.
Consumes(R, K, i) ==
    Cardinality({j \in 1..(i - 1) : R[j].id = R[i].id}) < Count(K, R[i].id)

\* Entry k of K is left over: the records of R did not use up the entries
\* of that identifier up to k.
LeftOver(R, K, k) ==
    LET carried == Cardinality({i \in 1..Len(R) : R[i].id = K[k]})
    IN  carried = 0 \/ Cardinality({j \in 1..(k - 1) : K[j] = K[k]}) >= carried

Indices(lst) == [i \in 1..Len(lst) |-> i]

AllParse(R, K) ==
    \A i \in 1..Len(R) : Consumes(R, K, i) => Bucket(R[i].qty).ok

\* C1: for pairwise-distinct K and any R whose matched records parse,
\* create_stocks returns exactly |K| updates, one for every identifier of K
\* and none for any other identifier.
C1_OneUpdatePerIdentifier ==
    (Returned /\ Distinct(call.offer_ids)
         /\ AllParse(call.watch_remnants, call.offer_ids)) =>
        /\ ret.raised = "none"
        /\ Len(ret.stocks) = Len(call.offer_ids)
        /\ \A k \in 1..Len(call.offer_ids) :
               Cardinality({i \in 1..Len(ret.stocks) :
                   StockId(ret.stocks[i]) = call.offer_ids[k]}) = 1
        /\ \A i \in 1..Len(ret.stocks) :
               In(StockId(ret.stocks[i]), call.offer_ids)

C1_Witness ==
    /\ Returned /\ Distinct(call.offer_ids) /\ ret.raised = "none"
    /\ Len(call.offer_ids) = 3
    /\ Len(call.watch_remnants) = 2
    /\ call.watch_remnants[1].id = call.watch_remnants[2].id
    /\ In(call.watch_remnants[1].id, call.offer_ids)

\* C9: the returned list is the updates of the consuming records, in
\* inventory order, followed by a zero update for every left-over entry of
\* the identifier list, in the list's order; [A,B,C] with inventory
\* [(A, ">10")] gives A->100, B->0, C->0.
C9_TwoPassOrder ==
    (Returned /\ AllParse(call.watch_remnants, call.offer_ids)) =>
        LET R == call.watch_remnants
            K == call.offer_ids
            hit == SelectSeq(Indices(R), LAMBDA i : Consumes(R, K, i))
            rest == SelectSeq(Indices(K), LAMBDA k : LeftOver(R, K, k))
            got == [i \in 1..Len(ret.stocks) |->
                       <<StockId(ret.stocks[i]), StockQty(ret.stocks[i])>>]
        IN  /\ ret.raised = "none"
            /\ got = [i \in 1..Len(hit) |->
                          <<R[hit[i]].id, Bucket(R[hit[i]].qty).val>>]
                     \o [k \in 1..Len(rest) |-> <<K[rest[k]], 0>>]
            /\ (K = <<"A", "B", "C">> /\ R = <<RecA>>) =>
                   got = << <<"A", 100>>, <<"B", 0>>, <<"C", 0>> >>

C9_Witness ==
    /\ Returned
    /\ call.offer_ids = <<"A", "B", "C">>
    /\ call.watch_remnants = <<RecA>>
    /\ Len(ret.stocks) = 3
    /\ StockId(ret.stocks[1]) = "A" /\ StockQty(ret.stocks[1]) = 100

\* C10: a matched record's quantity is 100 for ">10", 0 for "1", and int(d)
\* for any other numeric d; so no update carries quantity 1 and every
\* quantity is >= 0.  (d is the cell, its text where the policy compares.)
C10_BucketedQuantities ==
    (Returned /\ ret.raised = "none") =>
        LET R == call.watch_remnants
            K == call.offer_ids
            hit == SelectSeq(Indices(R), LAMBDA i : Consumes(R, K, i))
        IN  /\ \A i \in 1..Len(hit) :
                   StockQty(ret.stocks[i]) =
                       (IF PyStr(R[hit[i]].qty) = Gt10 THEN 100
                        ELSE IF PyStr(R[hit[i]].qty) = One THEN 0
                        ELSE PyIntRaw(R[hit[i]].qty).val)
            /\ \A i \in 1..Len(ret.stocks) :
                   StockQty(ret.stocks[i]) # 1 /\ StockQty(ret.stocks[i]) >= 0

-----------------------------------------------------------------------------
(* The two jobs: seller.main and market.main.                              *)

\* Pages the remote may serve: the items of a page, as their identifiers.
PagePool == { <<>>, <<"A", "B">>, <<"C">> }

\* A catalog the remote may serve whole on the first page, longer than a
\* chunk of the job's stock loop: "A", "B" and numbered identifiers.  The
\* seller's gives three chunks, the market's two.
LargeSellerPage ==
    <<"A", "B">> \o [i \in 1..(2 * SellerStocksChunk - 1) |-> ToString(i)]
LargeMarketPage ==
    <<"A", "B">> \o [i \in 1..(MarketStocksChunk - 1) |-> ToString(i)]

\* The responses a page request of seller.get_product_list may receive.
SellerResponses ==
    [items : PagePool, total : 0..MaxTotal]
        \cup (IF responses = <<>>
              THEN {[items |-> LargeSellerPage, total |-> Len(LargeSellerPage)]}
              ELSE {})

\* The responses a page request of market.get_product_list may receive;
\* token "" stands for an absent or empty nextPageToken.
MarketResponses ==
    [items : PagePool, nextPageToken : {"", "next"}]
        \cup (IF responses = <<>>
              THEN {[items |-> LargeMarketPage, nextPageToken |-> ""]}
              ELSE {})

\* Inventory snapshots download_stock may deliver.
Inventories ==
    { <<>>,
      <<RecA>>,
      <<RecA, Rec("B", StrCell(One), P999)>>,
      <<Rec("C", StrCell(<<"7">>), P12), Rec("D", StrCell(<<"7">>), P12)>>,
      <<Rec("B", StrCell(<<"x">>), P12)>>,
      <<Rec("A", IntCell(1), P12), Rec("B", FloatCell(75), P999)>>,
      <<Rec("A", NoneCell, P12)>> }

\* What requests raises on a failed call: raise_for_status (HTTPError), or the
\* call itself.
TransportErrors == {"HTTPError", "ConnectionError", "ReadTimeout"}

\* main's except clauses, in order; the Russian messages are transliterated.
ExceptMessage(e) ==
    IF e = "ReadTimeout" THEN "Prevysheno vremya ozhidaniya..."
    ELSE IF e = "ConnectionError" THEN "Oshibka soedineniya"
    ELSE "ERROR_2"

Request(r, body, ok) == [req |-> r, chan |-> chan, body |-> body, ok |-> ok]

\* The upload_* coroutine functions of the two files, run to completion by
\* whoever awaits them.
UploadStocksJobs == {"seller.upload_stocks", "market.upload_stocks"}
UploadPricesJobs == {"seller.upload_prices", "market.upload_prices"}

\* The file whose functions the job runs.
File ==
    IF job \in {"seller", "seller.upload_stocks", "seller.upload_prices"}
    THEN "seller" ELSE "market"

InMain == job \in {"seller", "market"}

Init ==
    /\ job \in {"seller", "market"}
    /\ pc = IF job = "seller" THEN "get_offer_ids" ELSE "download_stock"
    /\ chan = 1
    /\ responses = <<>> /\ product_list = <<>> /\ offer_ids = <<>>
    /\ catalog = <<<<>>, <<>>>> /\ watch_remnants = <<>> /\ stocks = <<>>
    /\ prices = <<>> /\ todo = <<>> /\ log = <<>>
    /\ raised = "none" /\ out = "none"
    /\ call = <<>> /\ ret = <<>>

\* An exception raised inside main's try block: the matching except clause
\* prints and main returns.
RaiseInTry(e) ==
    /\ raised' = e
    /\ out' = ExceptMessage(e)
    /\ pc' = "done"

\* An exception raised outside any try block leaves main as a traceback.
RaiseUncaught(e) ==
    /\ raised' = e
    /\ out' = "none"
    /\ pc' = "crashed"

\* An exception raised where the job runs: inside main's try block, or in a
\* coroutine function, which has no try block and passes it to its awaiter.
Raise(e) == IF InMain THEN RaiseInTry(e) ELSE RaiseUncaught(e)

\* The statement that follows "offer_ids = get_offer_ids(...)" in the job.
AfterGetOfferIds ==
    IF job = "seller" THEN "download_stock"
    ELSE IF job \in UploadPricesJobs THEN "create_prices"
    ELSE "create_stocks"

\* get_offer_ids adding to the list main already holds instead of returning
\* a fresh one.
ReturnOfferIds_extends(lst) ==
    /\ offer_ids' = offer_ids \o lst
    /\ catalog' = [catalog EXCEPT ![chan] = lst]
    /\ pc' = AfterGetOfferIds

\* get_offer_ids returns: the offer_id / shopSku of every product collected.
ReturnOfferIds(lst) ==
    /\ offer_ids' = lst
    /\ catalog' = [catalog EXCEPT ![chan] = lst]
    /\ pc' = AfterGetOfferIds

\* seller.get_offer_ids: one turn of the while loop with a successful request.
SellerGetProductList ==
    /\ File = "seller" /\ pc = "get_offer_ids"
    /\ Len(responses) < MaxPages
    /\ \E r \in SellerResponses :
           /\ responses' = Append(responses, r)
           /\ product_list' = product_list \o r.items
           /\ log' = Append(log, Request("get_product_list", <<>>, TRUE))
           /\ IF r.total = Len(product_list')
              THEN ReturnOfferIds(product_list')
              ELSE UNCHANGED <<offer_ids, catalog, pc>>
    /\ UNCHANGED <<job, chan, watch_remnants, stocks, prices, todo, raised, out,
                   call, ret>>

\* market.get_offer_ids leaving its loop on an empty page instead of on a
\* missing token.
MarketGetProductList_until_empty_page ==
    /\ File = "market" /\ pc = "get_offer_ids"
    /\ Len(responses) < MaxPages
    /\ \E r \in MarketResponses :
           /\ responses' = Append(responses, r)
           /\ product_list' = product_list \o r.items
           /\ log' = Append(log, Request("get_product_list", <<>>, TRUE))
           /\ IF r.items = <<>>
              THEN ReturnOfferIds(product_list')
              ELSE UNCHANGED <<offer_ids, catalog, pc>>
    /\ UNCHANGED <<job, chan, watch_remnants, stocks, prices, todo, raised, out,
                   call, ret>>

\* market.get_offer_ids: one turn of the while loop with a successful
\* request.
MarketGetProductList ==
    /\ File = "market" /\ pc = "get_offer_ids"
    /\ Len(responses) < MaxPages
    /\ \E r \in MarketResponses :
           /\ responses' = Append(responses, r)
           /\ product_list' = product_list \o r.items
           /\ log' = Append(log, Request("get_product_list", <<>>, TRUE))
           /\ IF r.nextPageToken = ""
              THEN ReturnOfferIds(product_list')
              ELSE UNCHANGED <<offer_ids, catalog, pc>>
    /\ UNCHANGED <<job, chan, watch_remnants, stocks, prices, todo, raised, out,
                   call, ret>>

\* get_product_list raises (either file): both mains call get_offer_ids
\* inside try, the coroutine functions outside any.
GetProductListFails ==
    /\ pc = "get_offer_ids"
    /\ Len(responses) < MaxPages
    /\ \E e \in TransportErrors :
           /\ log' = Append(log, Request("get_product_list", <<>>, FALSE))
           /\ Raise(e)
    /\ UNCHANGED <<job, chan, responses, product_list, offer_ids, catalog,
                   watch_remnants, stocks, prices, todo, call, ret>>

\* download_stock returns the records of the snapshot.
DownloadStock ==
    /\ pc = "download_stock"
    /\ \E inv \in Inventories : watch_remnants' = inv
    /\ log' = Append(log, Request("download_stock", <<>>, TRUE))
    /\ pc' = IF job = "seller" THEN "create_stocks" ELSE "get_offer_ids"
    /\ UNCHANGED <<job, chan, responses, product_list, offer_ids, catalog,
                   stocks, prices, todo, raised, out, call, ret>>

\* download_stock raises: seller.main calls it inside try (line 375),
\* market.main before its try (line 337).
DownloadStockFails ==
    /\ pc = "download_stock"
    /\ \E e \in TransportErrors :
           /\ log' = Append(log, Request("download_stock", <<>>, FALSE))
           /\ IF job = "seller" THEN RaiseInTry(e) ELSE RaiseUncaught(e)
    /\ UNCHANGED <<job, chan, responses, product_list, offer_ids, catalog,
                   watch_remnants, stocks, prices, todo, call, ret>>

\* stocks = create_stocks(...) and list(divide(stocks, ...)), in main and
\* in upload_stocks; the call changes the caller's offer_ids in place.
CreateStocks ==
    /\ pc = "create_stocks"
    /\ LET r == IF File = "seller"
                THEN create_stocks(watch_remnants, offer_ids)
                ELSE market_create_stocks(watch_remnants, offer_ids,
                                          WarehouseIds[chan])
       IN  /\ offer_ids' = r.offer_ids
           /\ IF r.raised # "none"
              THEN Raise(r.raised) /\ UNCHANGED <<stocks, todo>>
              ELSE /\ stocks' = r.stocks
                   /\ todo' = divide(r.stocks, IF File = "seller"
                                               THEN SellerStocksChunk
                                               ELSE MarketStocksChunk)
                   /\ pc' = "update_stocks"
                   /\ UNCHANGED <<raised, out>>
    /\ UNCHANGED <<job, chan, responses, product_list, catalog, watch_remnants,
                   prices, log, call, ret>>

\* One turn of "for some_stock in ...: update_stocks(...)".
UpdateStocks ==
    /\ pc = "update_stocks" /\ todo # <<>>
    /\ log' = Append(log, Request("update_stocks", Head(todo), TRUE))
    /\ todo' = Tail(todo)
    /\ UNCHANGED <<job, pc, chan, responses, product_list, offer_ids, catalog,
                   watch_remnants, stocks, prices, raised, out, call, ret>>

\* The stock loop with the failure swallowed: the loop goes on with the next
\* chunk.
UpdateStocksFails_swallowed ==
    /\ pc = "update_stocks" /\ todo # <<>>
    /\ log' = Append(log, Request("update_stocks", Head(todo), FALSE))
    /\ todo' = Tail(todo)
    /\ UNCHANGED <<job, pc, chan, responses, product_list, offer_ids, catalog,
                   watch_remnants, stocks, prices, raised, out, call, ret>>

UpdateStocksFails ==
    /\ pc = "update_stocks" /\ todo # <<>>
    /\ \E e \in TransportErrors :
           /\ log' = Append(log, Request("update_stocks", Head(todo), FALSE))
           /\ Raise(e)
    /\ UNCHANGED <<job, chan, responses, product_list, offer_ids, catalog,
                   watch_remnants, stocks, prices, todo, call, ret>>

\* seller.main: prices = create_prices(watch_remnants, offer_ids) with the
\* offer_ids create_stocks left, and list(divide(prices, 900)).
SellerCreatePrices ==
    /\ job = "seller" /\ pc = "update_stocks" /\ todo = <<>>
    /\ prices' = create_prices(watch_remnants, offer_ids)
    /\ todo' = divide(prices', SellerPricesChunk)
    /\ pc' = "update_price"
    /\ UNCHANGED <<job, chan, responses, product_list, offer_ids, catalog,
                   watch_remnants, stocks, log, raised, out, call, ret>>

\* One turn of "for some_price in ...: update_price(...)", in seller.main
\* and in upload_prices.
UpdatePrice ==
    /\ pc = "update_price" /\ todo # <<>>
    /\ log' = Append(log, Request("update_price", Head(todo), TRUE))
    /\ todo' = Tail(todo)
    /\ UNCHANGED <<job, pc, chan, responses, product_list, offer_ids, catalog,
                   watch_remnants, stocks, prices, raised, out, call, ret>>

UpdatePriceFails ==
    /\ pc = "update_price" /\ todo # <<>>
    /\ \E e \in TransportErrors :
           /\ log' = Append(log, Request("update_price", Head(todo), FALSE))
           /\ Raise(e)
    /\ UNCHANGED <<job, chan, responses, product_list, offer_ids, catalog,
                   watch_remnants, stocks, prices, todo, call, ret>>

\* seller.main falls off the end of its try block.
SellerReturn ==
    /\ job = "seller" /\ pc = "update_price" /\ todo = <<>>
    /\ pc' = "done"
    /\ UNCHANGED <<job, chan, responses, product_list, offer_ids, catalog,
                   watch_remnants, stocks, prices, todo, log, raised, out,
                   call, ret>>

\* market.main: upload_prices(watch_remnants, campaign_id, market_token).
\* upload_prices is a coroutine function and the call is not awaited: it
\* builds a coroutine object, runs none of the body and the object is dropped.
\* main goes on with DBS, or returns.
MarketUploadPrices ==
    /\ job = "market" /\ pc = "update_stocks" /\ todo = <<>>
    /\ IF chan = 1
       THEN /\ chan' = 2
            /\ pc' = "get_offer_ids"
            /\ responses' = <<>>
            /\ product_list' = <<>>
       ELSE /\ pc' = "done"
            /\ UNCHANGED <<chan, responses, product_list>>
    /\ UNCHANGED <<job, offer_ids, catalog, watch_remnants, stocks, prices,
                   todo, log, raised, out, call, ret>>

Next ==
    \/ SellerGetProductList
    \/ MarketGetProductList
    \/ GetProductListFails
    \/ DownloadStock
    \/ DownloadStockFails
    \/ CreateStocks
    \/ UpdateStocks
    \/ UpdateStocksFails
    \/ SellerCreatePrices
    \/ UpdatePrice
    \/ UpdatePriceFails
    \/ SellerReturn
    \/ MarketUploadPrices

Spec == Init /\ [][Next]_vars

-----------------------------------------------------------------------------
(* The upload_* coroutine functions, awaited.  Neither main awaits them    *)
(* (seller.main never calls them, market.main calls upload_prices and      *)
(* drops the coroutine), so they run only for another caller.              *)

\* The coroutine starts with offer_ids = get_offer_ids(...); watch_remnants
\* is its argument, and market.upload_stocks is given either warehouse.
InitUpload ==
    /\ job \in UploadStocksJobs \cup UploadPricesJobs
    /\ pc = "get_offer_ids"
    /\ chan \in (IF job = "market.upload_stocks" THEN {1, 2} ELSE {1})
    /\ watch_remnants \in Inventories
    /\ responses = <<>> /\ product_list = <<>> /\ offer_ids = <<>>
    /\ catalog = <<<<>>, <<>>>> /\ stocks = <<>>
    /\ prices = <<>> /\ todo = <<>> /\ log = <<>>
    /\ raised = "none" /\ out = "none"
    /\ call = <<>> /\ ret = <<>>

\* upload_stocks: not_empty = list(filter(...)); return not_empty, stocks
UploadStocksReturn ==
    /\ job \in UploadStocksJobs /\ pc = "update_stocks" /\ todo = <<>>
    /\ ret' = <<SelectSeq(stocks, LAMBDA u : StockQty(u) # 0), stocks>>
    /\ pc' = "done"
    /\ UNCHANGED <<job, chan, responses, product_list, offer_ids, catalog,
                   watch_remnants, stocks, prices, todo, log, raised, out,
                   call>>

\* upload_prices: prices = create_prices(watch_remnants, offer_ids) and
\* list(divide(prices, 1000)) in seller.py, list(divide(prices, 500)) in
\* market.py, where create_prices may raise.
UploadCreatePrices ==
    /\ job \in UploadPricesJobs /\ pc = "create_prices"
    /\ IF File = "seller"
       THEN /\ prices' = create_prices(watch_remnants, offer_ids)
            /\ todo' = divide(prices', SellerUploadPricesChunk)
            /\ pc' = "update_price"
            /\ UNCHANGED <<raised, out>>
       ELSE LET r == market_create_prices(watch_remnants, offer_ids)
            IN  IF r.raised # "none"
                THEN Raise(r.raised) /\ UNCHANGED <<prices, todo>>
                ELSE /\ prices' = r.prices
                     /\ todo' = divide(r.prices, MarketPricesChunk)
                     /\ pc' = "update_price"
                     /\ UNCHANGED <<raised, out>>
    /\ UNCHANGED <<job, chan, responses, product_list, offer_ids, catalog,
                   watch_remnants, stocks, log, call, ret>>

\* upload_prices: return prices
UploadPricesReturn ==
    /\ job \in UploadPricesJobs /\ pc = "update_price" /\ todo = <<>>
    /\ ret' = prices
    /\ pc' = "done"
    /\ UNCHANGED <<job, chan, responses, product_list, offer_ids, catalog,
                   watch_remnants, stocks, prices, todo, log, raised, out,
                   call>>

NextUpload ==
    \/ SellerGetProductList
    \/ MarketGetProductList
    \/ GetProductListFails
    \/ CreateStocks
    \/ UpdateStocks
    \/ UpdateStocksFails
    \/ UploadStocksReturn
    \/ UploadCreatePrices
    \/ UpdatePrice
    \/ UpdatePriceFails
    \/ UploadPricesReturn

SpecUpload == InitUpload /\ [][NextUpload]_vars

-----------------------------------------------------------------------------
(* Properties of the runs.                                                 *)

\* The write requests in the log, in order, as <<request, channel, chunk>>.
Writes ==
    LET w == SelectSeq(log, LAMBDA r : r.req \in {"update_stocks", "update_price"})
    IN  [i \in 1..Len(w) |-> <<w[i].req, w[i].chan, w[i].body>>]

\* The chunks sent by requests of kind r for channel c, in order.
Bodies(r, c) ==
    LET w == SelectSeq(log, LAMBDA q : q.req = r /\ q.chan = c)
    IN  [i \in 1..Len(w) |-> w[i].body]

IsPrefix(a, b) == Len(a) <= Len(b) /\ a = SubSeq(b, 1, Len(a))

SomeRequestFailed == \E i \in 1..Len(log) : ~log[i].ok

\* The inventory records whose identifier is in the list ids, in order.
RecordsIn(ids) == SelectSeq(watch_remnants, LAMBDA w : In(w.id, ids))

\* C2: a seller run that ends without an exception has submitted one price
\* update, carrying the normalized price, for every inventory record whose
\* identifier is in the fetched catalog; catalog [A,B,C] with inventory
\* [(A, ">10", "5'990.00 rub.")] gives exactly [(A, 5990)].
C2_PricesForCatalogRecords ==
    (job = "seller" /\ pc = "done" /\ raised = "none") =>
        LET sent == Flatten(Bodies("update_price", 1))
            want == RecordsIn(catalog[1])
        IN  /\ [i \in 1..Len(sent) |-> <<sent[i].offer_id, sent[i].price>>]
                   = [i \in 1..Len(want) |->
                          <<want[i].id, price_conversion(want[i].price)>>]
            /\ (catalog[1] = <<"A", "B", "C">> /\ watch_remnants = <<RecA>>) =>
                   [i \in 1..Len(sent) |-> <<sent[i].offer_id, sent[i].price>>]
                       = << <<"A", <<"5", "9", "9", "0">>>> >>

\* The write requests a complete market run is meant to make for channel c:
\* its stock chunks, then its price chunks.
MarketIntended(c) ==
    LET st == market_create_stocks(watch_remnants, catalog[c], WarehouseIds[c]).stocks
        pr == market_create_prices(watch_remnants, catalog[c]).prices
        sc == divide(st, MarketStocksChunk)
        pc_ == divide(pr, MarketPricesChunk)
    IN  [i \in 1..Len(sc) |-> <<"update_stocks", c, sc[i]>>]
            \o [i \in 1..Len(pc_) |-> <<"update_price", c, pc_[i]>>]

\* C3: a market run in which no request fails has, when it ends, submitted
\* for FBS and then for DBS every stock chunk and then every price chunk.
C3_MarketSubmitsStocksAndPrices ==
    (job = "market" /\ pc = "done" /\ raised = "none") =>
        Writes = MarketIntended(1) \o MarketIntended(2)

\* The chunks the running (or last) stock loop of channel c iterates over.
StockChunks(c) ==
    IF job = "seller"
    THEN divide(create_stocks(watch_remnants, catalog[c]).stocks, SellerStocksChunk)
    ELSE divide(market_create_stocks(watch_remnants, catalog[c],
                                     WarehouseIds[c]).stocks, MarketStocksChunk)

\* C4: chunks go out one request each, in list order, none twice; a failed
\* write request is the last request of the run: no retry, no later chunk,
\* no price chunk, no second channel.
C4_FailureEndsSubmission ==
    /\ \A c \in 1..2 :
           (Bodies("update_stocks", c) # <<>>) =>
               IsPrefix(Bodies("update_stocks", c), StockChunks(c))
    /\ IsPrefix(Bodies("update_price", 1), divide(prices, SellerPricesChunk))
    /\ (pc = "update_stocks" /\ raised = "none") =>
           Bodies("update_stocks", chan) \o todo = StockChunks(chan)
    /\ (pc = "update_price" /\ raised = "none") =>
           Bodies("update_price", 1) \o todo = divide(prices, SellerPricesChunk)
    /\ \A i \in 1..Len(log) :
           ~log[i].ok => i = Len(log) /\ pc \in {"done", "crashed"}

\* The second of three stock chunks of a seller run failed: the third and
\* the prices were never sent.
C4_Witness ==
    /\ job = "seller" /\ pc = "done"
    /\ log # <<>>
    /\ log[Len(log)].req = "update_stocks" /\ ~log[Len(log)].ok
    /\ Len(Bodies("update_stocks", 1)) = 2
    /\ Len(StockChunks(1)) = 3
    /\ Len(todo) = 2
    /\ RecordsIn(catalog[1]) # <<>>

\* C5: every failed HTTP call of a run, whichever request it is and in
\* whichever job, is caught by main, printed, and main ends normally.
C5_EveryFailureCaught ==
    SomeRequestFailed =>
        /\ pc = "done"
        /\ raised \in TransportErrors
        /\ out = ExceptMessage(raised)

\* get_offer_ids of the current channel has returned and main has not yet
\* touched the list.
JustFetched ==
    \/ job = "seller" /\ pc = "download_stock"
    \/ job = "market" /\ pc = "create_stocks"

\* C6: the list get_offer_ids returns holds every identifier served on any
\* page and holds none twice, also when pages repeat an item.
C6_CompleteAndDeduplicated ==
    JustFetched =>
        /\ \A p \in 1..Len(responses) : \A i \in 1..Len(responses[p].items) :
               In(responses[p].items[i], offer_ids)
        /\ Distinct(offer_ids)

\* The first page response already holds the whole catalog.
FirstPageWhole ==
    /\ responses # <<>>
    /\ IF job = "seller"
       THEN responses[1].total = Len(responses[1].items)
       ELSE responses[1].nextPageToken = ""

PageRequests(c) ==
    Len(SelectSeq(log, LAMBDA q : q.req = "get_product_list" /\ q.chan = c))

\* C7: when the first response holds the whole catalog, get_offer_ids has
\* returned its items after that one page request and issues no other; an
\* empty catalog gives the empty list after one request.
C7_OnePageOneRequest ==
    FirstPageWhole =>
        /\ pc # "get_offer_ids"
        /\ Len(responses) = 1
        /\ PageRequests(chan) = 1
        /\ catalog[chan] = responses[1].items
        /\ (responses[1].items = <<>> => catalog[chan] = <<>>)
        /\ (JustFetched => offer_ids = responses[1].items)

C7_Witness ==
    /\ JustFetched /\ FirstPageWhole
    /\ job = "market" /\ chan = 2
    /\ offer_ids = <<>>
    /\ catalog[1] = <<"A", "B">>
    /\ PageRequests(1) = 1 /\ PageRequests(2) = 1

-----------------------------------------------------------------------------
(* Quantity descriptors int() rejects.                                     *)

\* What int() raises: ValueError on a text, TypeError on None.
ConversionErrors == {"ValueError", "TypeError"}

\* The descriptor is neither ">10" nor "1" nor a value int() accepts.
Unparseable(q) == PyStr(q) # Gt10 /\ PyStr(q) # One /\ ~PyIntRaw(q).ok

HasUnparseable == \E i \in 1..Len(watch_remnants) : Unparseable(watch_remnants[i].qty)

\* A record that consumes an entry of channel c's catalog is unparseable.
BadMatch(c) ==
    \E i \in 1..Len(watch_remnants) :
        /\ Consumes(watch_remnants, catalog[c], i)
        /\ Unparseable(watch_remnants[i].qty)

\* The error int() raises on the first unparseable record that consumes an
\* entry of channel c's catalog.
BadMatchError(c) ==
    LET bad(i) == /\ Consumes(watch_remnants, catalog[c], i)
                  /\ Unparseable(watch_remnants[i].qty)
        first == CHOOSE i \in 1..Len(watch_remnants) :
                     bad(i) /\ \A j \in 1..(i - 1) : ~bad(j)
    IN  PyIntRaw(watch_remnants[first].qty).exc

\* C11 as stated: an unparseable descriptor on any inventory record makes
\* the run fail in create_stocks: no update list, no write request, the
\* error printed at main's boundary.
C11_AnyUnparseableIsFatal ==
    HasUnparseable =>
        /\ pc \notin {"update_stocks", "update_price"}
        /\ Writes = <<>>
        /\ stocks = <<>>
        /\ (pc = "done" /\ ~SomeRequestFailed) =>
               (raised \in ConversionErrors /\ out = "ERROR_2")

\* C11 amended: create_stocks parses only the records that match an entry
\* of the channel's identifier list.  When such a record is unparseable the
\* call raises int()'s error (ValueError; TypeError for a missing cell) and
\* returns no list, main prints it and ends, and no write request is issued
\* for that channel or after the error (in the market job the FBS stock
\* requests made before a DBS failure stay made); an unparseable record that
\* matches nothing raises nothing.
C11_MatchedUnparseableIsFatal ==
    /\ (BadMatch(chan) /\ pc # "create_stocks") =>
           /\ pc = "done"
           /\ raised = BadMatchError(chan)
           /\ raised \in ConversionErrors
           /\ out = "ERROR_2"
           /\ Bodies("update_stocks", chan) = <<>>
           /\ Bodies("update_price", chan) = <<>>
           /\ ~SomeRequestFailed
           /\ stocks = (IF chan = 1 THEN <<>>
                        ELSE market_create_stocks(watch_remnants, catalog[1],
                                                  WarehouseIds[1]).stocks)
    /\ raised \in ConversionErrors => BadMatch(chan)

C11_Witness ==
    /\ job = "market" /\ chan = 2 /\ pc = "done"
    /\ raised = "ValueError"
    /\ BadMatch(2) /\ ~BadMatch(1)
    /\ Bodies("update_stocks", 1) # <<>>
    /\ Bodies("update_stocks", 2) = <<>>

-----------------------------------------------------------------------------
(* price_conversion applied to bounded price texts.                        *)

\* Characters of the price texts; "U+FF15" is the fullwidth digit five, which
\* [0-9] does not match.
PriceAlphabet == {"5", "0", "U+FF15", "'", ".", " ", "r"}

InitPrice ==
    /\ MainIdle
    /\ pc = "call"
    /\ ret = <<>>
    /\ \E t \in SeqsUpTo(PriceAlphabet, MaxPrice) \cup {P5990, P12, P999} :
           call = [fn |-> "price_conversion", price |-> t]

ApplyPriceConversion ==
    /\ pc = "call" /\ call.fn = "price_conversion"
    /\ ret' = price_conversion(call.price)
    /\ pc' = "returned"
    /\ UNCHANGED <<call, mainvars>>

NextPrice == ApplyPriceConversion

SpecPrice == InitPrice /\ [][NextPrice]_vars

\* Position of the first "." of s, Len(s) + 1 when s has none.
FirstDot(s) ==
    IF \E i \in 1..Len(s) : s[i] = "."
    THEN CHOOSE i \in 1..Len(s) : s[i] = "." /\ \A j \in 1..(i - 1) : s[j] # "."
    ELSE Len(s) + 1

\* C12: price_conversion returns, in order, the digits that precede the
\* first "." (all digits when there is no "."): "5'990.00 rub." gives "5990",
\* "12.50" gives "12", "999 rub." gives "999"; the result is empty exactly
\* when no digit precedes the first ".", and holds digits only.
C12_DigitsBeforeFirstDot ==
    (pc = "returned" /\ call.fn = "price_conversion") =>
        LET s == call.price
            at == SelectSeq(Indices(s),
                            LAMBDA i : i < FirstDot(s) /\ s[i] \in DigitChars)
        IN  /\ ret = [j \in 1..Len(at) |-> s[at[j]]]
            /\ \A j \in 1..Len(ret) : ret[j] \in DigitChars
            /\ (ret = <<>>) <=>
                   ~\E i \in 1..(FirstDot(s) - 1) : s[i] \in DigitChars
            /\ (s = P5990 => ret = <<"5", "9", "9", "0">>)
            /\ (s = P12 => ret = <<"1", "2">>)
            /\ (s = P999 => ret = <<"9", "9", "9">>)

C12_Witness ==
    /\ pc = "returned" /\ call.fn = "price_conversion"
    /\ call.price = P5990
    /\ ret = <<"5", "9", "9", "0">>

-----------------------------------------------------------------------------
(* What reconciliation changes.                                            *)

\* The entries of K the records of R leave over, in K's order.
Remaining(R, K) ==
    LET rest == SelectSeq(Indices(K), LAMBDA k : LeftOver(R, K, k))
    IN  [j \in 1..Len(rest) |-> K[rest[j]]]

\* C13: the inventory changes only when it is downloaded; create_prices
\* leaves the identifier list as it is; a create_stocks call that returns
\* changes, besides producing the stock list, only the identifier list,
\* which keeps exactly its left-over entries in their order; and the DBS
\* stock list of market.main is the one DBS alone gives.
C13_Frame ==
    [][ /\ (pc # "download_stock") => watch_remnants' = watch_remnants
        /\ (pc = "update_stocks" /\ pc' = "update_price") =>
               /\ offer_ids' = offer_ids
               /\ prices' = create_prices(watch_remnants, offer_ids)
        /\ (pc = "create_stocks" /\ pc' = "update_stocks") =>
               /\ offer_ids' = Remaining(watch_remnants, offer_ids)
               /\ UNCHANGED <<job, chan, responses, product_list, catalog,
                              watch_remnants, prices, log, raised, out>>
               /\ (job = "market" /\ chan = 2) =>
                      stocks' = market_create_stocks(watch_remnants, catalog[2],
                                                     WarehouseIds[2]).stocks
      ]_vars

C13_Witness ==
    /\ job = "market" /\ chan = 2 /\ pc = "update_stocks"
    /\ catalog[1] = <<"A", "B">> /\ catalog[2] = <<"C", "A", "B">>
    /\ watch_remnants = <<RecA, Rec("B", StrCell(One), P999)>>
    /\ offer_ids = <<"C">>
    /\ Len(stocks) = 3

-----------------------------------------------------------------------------
(* Termination of the catalog fetch.                                       *)

\* Every page received so far reported the total of the first one and held
\* at least one item.
ConstantTotalNonEmptyPages ==
    /\ responses # <<>>
    /\ \A p \in 1..Len(responses) :
           /\ responses[p].total = responses[1].total
           /\ responses[p].items # <<>>

\* C14: the fetch returns whenever its requests succeed.  Non-empty pages
\* make the count grow, so with a constant total T the seller loop must have
\* returned once the count is T or more, whether it met T or went past it;
\* the market loop has returned once a page came without nextPageToken.
C14_FetchAlwaysReturns ==
    /\ (job = "seller" /\ ConstantTotalNonEmptyPages
            /\ Len(product_list) >= responses[1].total) =>
           pc # "get_offer_ids"
    /\ (job = "market" /\ responses # <<>>
            /\ responses[Len(responses)].nextPageToken = "") =>
           pc # "get_offer_ids"

====
